---------------------------- MODULE Spec2Model ----------------------------
(***************************************************************************)
(* A model of the two scripts of the repository:                           *)
(*   lrc-vtt-srt-translator.py  (class SubtitleConverter)                  *)
(*   Move-Item-Out-SubDir.py    (the module-level move loop)               *)
(*                                                                         *)
(* Strings are sequences of one-character strings, so that the regular     *)
(* expressions, strip, split and join of the source are modelled by what   *)
(* they do.  A Python float is modelled exactly: a value x >= 0 is the     *)
(* record [ip |-> floor(x), fr |-> the binary digits of x - floor(x)], and *)
(* every float operation of the source rounds to MantBits significant      *)
(* bits, to nearest, ties to even, as IEEE 754 binary64 does.              *)
(***************************************************************************)
EXTENDS Integers, Sequences, FiniteSets

VARIABLES
    \* --- the time codec on its own (SpecCodec) ---
    target_format,   \* the format argument of format_time / parse_time
    seconds,         \* the float handed to format_time
    time_str,        \* the string format_time returned
    parsed,          \* the float parse_time returned for time_str
    cpc,             \* "start" | "formatted" | "parsed"
    \* --- the parsers and serializers on their own (SpecParse) ---
    doc_lines,       \* the lines handed to the parser
    doc_format,      \* the format of doc_lines / of output
    subtitles,       \* the cue list the last parser call returned
    output,          \* the string the last serializer call returned
    ppc,             \* "lines" | "parsed" | "raised" | "serialized"
    trail,           \* the formats the document has been in, oldest first
    input0,          \* doc_lines as they were at the start
    \* --- convert_file over a directory (Spec) ---
    fs,              \* the files beside the input: suffix -> content
    before,          \* fs as it was when the last call started
    last_call,       \* <<input suffix, output_format>> of the last call
    written,         \* the suffixes of the files the last call wrote
    error,           \* the error the last call ended with, "none" if none
    ncalls,          \* calls made so far
    \* --- the directory mover (SpecMover) ---
    root,            \* names of the entries of Root_Dir
    subdir,          \* subdirectory name -> names of the items inside it
    subdir0,         \* subdir as it was when the script started
    Item_List,       \* os.listdir(Root_Dir), taken once
    outer_i,         \* the outer loop's index i (0-based)
    todo,            \* what is left of os.listdir(path) in the inner loop
    mpc              \* "outer" | "move" | "rmtree" | "done" | "crashed"

codecVars == <<target_format, seconds, time_str, parsed, cpc>>

parseVars == <<doc_lines, doc_format, subtitles, output, ppc, trail, input0>>

convVars  == <<fs, before, last_call, written, error, ncalls>>

moverVars == <<root, subdir, subdir0, Item_List, outer_i, todo, mpc>>

vars == <<codecVars, parseVars, convVars, moverVars>>

---------------------------------------------------------------------------
(* Characters and strings                                                  *)

\* F of the value of v: Python evaluates an expression once and binds the
\* result to a name
With(v, F(_)) == CHOOSE r \in {F(x) : x \in {v}} : TRUE

Digits == <<"0", "1", "2", "3", "4", "5", "6", "7", "8", "9">>

IsDigit(c) == \E d \in 1..10 : Digits[d] = c

DigitVal(c) == (CHOOSE d \in 1..10 : Digits[d] = c) - 1

\* int(s) for a string of decimal digits
StrToInt(s) ==
    LET v[k \in 0..Len(s)] ==
            IF k = 0 THEN 0 ELSE 10 * v[k - 1] + DigitVal(s[k])
    IN  v[Len(s)]

\* str(n) for n >= 0
RECURSIVE IntToStr(_)
IntToStr(n) ==
    IF n < 10 THEN <<Digits[n + 1]>>
    ELSE With(n \div 10, LAMBDA q : IntToStr(q)) \o <<Digits[(n % 10) + 1]>>

\* s padded with zeros on the left to at least w characters
ZeroPad(s, w) ==
    IF Len(s) >= w THEN s ELSE [j \in 1..(w - Len(s)) |-> "0"] \o s

\* the field written without its width: f"{n}"
Fmt02dUnpadded(n) == IntToStr(n)

\* f"{n:02d}"
Fmt02d(n) == With(IntToStr(n), LAMBDA s : ZeroPad(s, 2))

\* f"{n:03d}"
Fmt03d(n) == With(IntToStr(n), LAMBDA s : ZeroPad(s, 3))

---------------------------------------------------------------------------
(* Python floats (IEEE 754 binary64), exactly.  The binary digits after    *)
(* the point are kept in NLimbs limbs of LimbBits bits, most significant   *)
(* first: enough for every float >= 2^-11 below 2^MantBits.                *)

MantBits == 53

LimbBits == 16

NLimbs == 4

LimbBase == 2 ^ LimbBits

FracBits == NLimbs * LimbBits

ZeroFr == [m \in 1..NLimbs |-> 0]

FromInt(n) == [ip |-> n, fr |-> ZeroFr]

\* n.bit_length()
BitLen(n) ==
    IF n = 0 THEN 0
    ELSE CHOOSE b \in 1..31 : 2 ^ (b - 1) <= n /\ (b = 31 \/ n < 2 ^ b)

\* binary digit j (1 = the first after the point) of the fraction fr
Bit(fr, j) ==
    (fr[((j - 1) \div LimbBits) + 1]
        \div (2 ^ (LimbBits - 1 - ((j - 1) % LimbBits)))) % 2

LeadZeros(fr) ==
    IF fr = ZeroFr THEN FracBits
    ELSE LET m == CHOOSE k \in 1..NLimbs :
                      fr[k] # 0 /\ \A l \in 1..(k - 1) : fr[l] = 0
         IN  LimbBits * m - BitLen(fr[m])

\* fr with every digit after the K-th cleared
Trunc(fr, K) ==
    [m \in 1..NLimbs |->
        IF K >= LimbBits * m THEN fr[m]
        ELSE IF K <= LimbBits * (m - 1) THEN 0
        ELSE fr[m] - (fr[m] % (2 ^ (LimbBits * m - K)))]

\* fr + 2^-K: [carry |-> the carry into the integer part, fr |-> the digits]
AddUlp(fr, K) ==
    LET mk == ((K - 1) \div LimbBits) + 1
        sum[m \in 1..(NLimbs + 1)] ==
            IF m = NLimbs + 1 THEN 0
            ELSE fr[m] + (sum[m + 1] \div LimbBase)
                     + (IF m = mk THEN 2 ^ (LimbBits * mk - K) ELSE 0)
    IN  [carry |-> sum[1] \div LimbBase,
         fr |-> [m \in 1..NLimbs |-> sum[m] % LimbBase]]

\* The float nearest to ip + 0.fr (+ a nonzero tail below fr when sticky),
\* ties to even: K digits after the point are kept.
RoundAt(ip, fr, sticky, K) ==
    IF K >= FracBits THEN [ip |-> ip, fr |-> fr]
    ELSE IF Bit(fr, K + 1) = 1
            /\ (sticky \/ Trunc(fr, K + 1) # fr \/ Bit(fr, K) = 1)
    THEN With(AddUlp(Trunc(fr, K), K),
              LAMBDA up : [ip |-> ip + up.carry, fr |-> up.fr])
    ELSE [ip |-> ip, fr |-> Trunc(fr, K)]

Round(ip, fr, sticky) ==
    With(IF ip > 0 THEN MantBits - BitLen(ip) ELSE LeadZeros(fr) + MantBits,
         LAMBDA K : RoundAt(ip, fr, sticky, K))

\* n / d for ints 0 <= n < d: true division, correctly rounded
IntDiv(n, d) ==
    LET r[m \in 0..NLimbs] ==
            IF m = 0 THEN n ELSE (r[m - 1] * LimbBase) % d
    IN  With([m \in 1..NLimbs |-> (r[m - 1] * LimbBase) \div d],
             LAMBDA q : Round(0, q, r[NLimbs] # 0))

\* x + n for a float x and an int n >= 0
FAddInt(x, n) == With(x, LAMBDA v : Round(v.ip + n, v.fr, FALSE))

\* the exact product x * k of a float x and an int k >= 1 (not rounded)
MulExact(x, k) ==
    LET c[m \in 1..(NLimbs + 1)] ==
            IF m = NLimbs + 1 THEN 0
            ELSE (k * x.fr[m] + c[m + 1]) \div LimbBase
    IN  [ip |-> x.ip * k + c[1],
         fr |-> [m \in 1..NLimbs |-> (k * x.fr[m] + c[m + 1]) % LimbBase]]

\* x * k as the float product
FMulInt(x, k) == With(MulExact(x, k), LAMBDA p : Round(p.ip, p.fr, FALSE))

\* x - int(x): exact in binary64
FracPart(x) == [ip |-> 0, fr |-> x.fr]

\* x < y
FLess(x, y) ==
    \/ x.ip < y.ip
    \/ /\ x.ip = y.ip
       /\ \E m \in 1..NLimbs :
              /\ x.fr[m] < y.fr[m]
              /\ \A l \in 1..(m - 1) : x.fr[l] = y.fr[l]

\* the exact difference x - y of floats x >= y (not rounded)
SubExact(x, y) ==
    LET b[m \in 1..(NLimbs + 1)] ==
            IF m = NLimbs + 1 THEN 0
            ELSE IF x.fr[m] - y.fr[m] - b[m + 1] < 0 THEN 1 ELSE 0
    IN  [ip |-> x.ip - y.ip - b[1],
         fr |-> [m \in 1..NLimbs |->
                    (x.fr[m] - y.fr[m] - b[m + 1] + LimbBase) % LimbBase]]

---------------------------------------------------------------------------
(* The time codec                                                          *)

NoMatch == [ok |-> FALSE, groups |-> <<>>, end |-> 0]

\* the longest run of at most max digits of s that starts at position p
DigitRun(s, p, max) ==
    LET n == CHOOSE k \in 0..max :
                 /\ \A j \in 0..(k - 1) : p + j <= Len(s) /\ IsDigit(s[p + j])
                 /\ k = max \/ p + k > Len(s) \/ ~IsDigit(s[p + k])
    IN  SubSeq(s, p, p + n - 1)

\* (\d{1,2}):(\d{1,2}):(\d{1,2})<sep>(\d{1,3}) matched at position p of s,
\* sep one of seps
TimeMatchAt(s, p, seps) ==
    With(DigitRun(s, p, 2), LAMBDA g1 :
    With(DigitRun(s, p + Len(g1) + 1, 2), LAMBDA g2 :
    With(DigitRun(s, p + Len(g1) + Len(g2) + 2, 2), LAMBDA g3 :
    With(DigitRun(s, p + Len(g1) + Len(g2) + Len(g3) + 3, 3), LAMBDA g4 :
        LET p1 == p + Len(g1)
            p2 == p1 + 1 + Len(g2)
            p3 == p2 + 1 + Len(g3)
        IN  IF /\ g1 # <<>> /\ p1 <= Len(s) /\ s[p1] = ":"
               /\ g2 # <<>> /\ p2 <= Len(s) /\ s[p2] = ":"
               /\ g3 # <<>> /\ p3 <= Len(s) /\ s[p3] \in seps
               /\ g4 # <<>>
            THEN [ok |-> TRUE, groups |-> <<g1, g2, g3, g4>>,
                  end |-> p3 + Len(g4)]
            ELSE NoMatch))))

\* self.time_pattern.match(s)
time_pattern(s) == TimeMatchAt(s, 1, {",", "."})

\* self.srt_time_pattern.match(s)
srt_time_pattern(s) == TimeMatchAt(s, 1, {","})

\* self.vtt_time_pattern.match(s)
vtt_time_pattern(s) == TimeMatchAt(s, 1, {"."})

\* \[(\d{1,2}):(\d{1,2})\.(\d{1,2})\] matched at position p of s
LrcMatchAt(s, p) ==
    With(DigitRun(s, p + 1, 2), LAMBDA g1 :
    With(DigitRun(s, p + Len(g1) + 2, 2), LAMBDA g2 :
    With(DigitRun(s, p + Len(g1) + Len(g2) + 3, 2), LAMBDA g3 :
        LET p1 == p + 1 + Len(g1)
            p2 == p1 + 1 + Len(g2)
            p3 == p2 + 1 + Len(g3)
        IN  IF /\ p <= Len(s) /\ s[p] = "["
               /\ g1 # <<>> /\ p1 <= Len(s) /\ s[p1] = ":"
               /\ g2 # <<>> /\ p2 <= Len(s) /\ s[p2] = "."
               /\ g3 # <<>> /\ p3 <= Len(s) /\ s[p3] = "]"
            THEN [ok |-> TRUE, groups |-> <<g1, g2, g3>>, end |-> p3]
            ELSE NoMatch)))

\* self.lrc_time_pattern.match(s)
lrc_time_pattern(s) == LrcMatchAt(s, 1)

\* m * 60 + s + cs / 100 of an LRC tag's three groups
LrcSeconds(tag) ==
    FAddInt(IntDiv(StrToInt(tag[3]), 100),
            StrToInt(tag[1]) * 60 + StrToInt(tag[2]))

parse_time(s, format) ==
    IF format \in {"srt", "vtt"}
    THEN With(time_pattern(s), LAMBDA match :
             IF match.ok
             THEN LET g == match.groups
                  IN  FAddInt(IntDiv(StrToInt(g[4]), 1000),
                              StrToInt(g[1]) * 3600 + StrToInt(g[2]) * 60
                                  + StrToInt(g[3]))
             ELSE FromInt(0))
    ELSE IF format = "lrc"
    THEN With(lrc_time_pattern(s), LAMBDA match :
             IF match.ok THEN LrcSeconds(match.groups) ELSE FromInt(0))
    ELSE FromInt(0)

\* int((seconds - int(seconds)) * k)
FracTimes(x, k) == FMulInt(FracPart(x), k).ip

format_time(x, format) ==
    IF format \in {"srt", "vtt"}
    THEN LET h  == x.ip \div 3600
             m  == (x.ip % 3600) \div 60
             s  == x.ip % 60
             ms == FracTimes(x, 1000)
         IN  Fmt02d(h) \o <<":">> \o Fmt02d(m) \o <<":">> \o Fmt02d(s)
                 \o <<IF format = "srt" THEN "," ELSE ".">> \o Fmt03d(ms)
    ELSE IF format = "lrc"
    THEN LET m  == x.ip \div 60
             s  == x.ip % 60
             cs == FracTimes(x, 100)
         IN  <<"[">> \o Fmt02d(m) \o <<":">> \o Fmt02d(s) \o <<".">>
                 \o Fmt02d(cs) \o <<"]">>
    ELSE <<>>

---------------------------------------------------------------------------
(* str methods and re calls the parsers use                                *)

NL == "\n"

\* the whitespace of the model's alphabet
IsSpace(c) == c \in {" ", NL}

\* s.strip()
Strip(s) ==
    LET lead == Cardinality({j \in 1..Len(s) :
                                \A k \in 1..j : IsSpace(s[k])})
        tail == Cardinality({j \in 1..Len(s) :
                                \A k \in j..Len(s) : IsSpace(s[k])})
    IN  IF lead = Len(s) THEN <<>> ELSE SubSeq(s, lead + 1, Len(s) - tail)

\* s.isdigit()
IsDigitStr(s) == s # <<>> /\ \A j \in 1..Len(s) : IsDigit(s[j])

\* the positions of s where sep occurs
Occurrences(s, sep) ==
    {p \in 1..(Len(s) - Len(sep) + 1) :
        s[p] = sep[1] /\ SubSeq(s, p, p + Len(sep) - 1) = sep}

\* the least element of a set of ints
Least(ps) == CHOOSE p \in ps : \A q \in ps : p <= q

\* sub in s
Contains(s, sep) == Occurrences(s, sep) # {}

\* s.split(sep), given the occurrences of sep in s from position from on:
\* the leftmost one ends the first part, and the search goes on behind it
RECURSIVE SplitAt(_, _, _, _)
SplitAt(s, sep, from, occ) ==
    IF occ = {} THEN <<SubSeq(s, from, Len(s))>>
    ELSE With(Least(occ), LAMBDA p :
             <<SubSeq(s, from, p - 1)>>
                 \o With({q \in occ : q >= p + Len(sep)}, LAMBDA rest :
                        SplitAt(s, sep, p + Len(sep), rest)))

\* s.split(sep)
Split(s, sep) == With(Occurrences(s, sep), LAMBDA occ : SplitAt(s, sep, 1, occ))

\* sep.join(parts)
RECURSIVE Join(_, _)
Join(parts, sep) ==
    IF parts = <<>> THEN <<>>
    ELSE IF Len(parts) = 1 THEN parts[1]
    ELSE parts[1] \o sep \o With(Tail(parts), LAMBDA rest : Join(rest, sep))

\* self.lrc_time_pattern.findall(s), searching from position p
RECURSIVE FindAllFrom(_, _)
FindAllFrom(s, p) ==
    IF p > Len(s) THEN <<>>
    ELSE With(LrcMatchAt(s, p), LAMBDA match :
             IF match.ok
             THEN <<match.groups>> \o FindAllFrom(s, match.end + 1)
             ELSE FindAllFrom(s, p + 1))

lrc_findall(s) == FindAllFrom(s, 1)

\* self.lrc_time_pattern.sub('', s), from position p
RECURSIVE SubFrom(_, _)
SubFrom(s, p) ==
    IF p > Len(s) THEN <<>>
    ELSE With(LrcMatchAt(s, p), LAMBDA match :
             IF match.ok THEN SubFrom(s, match.end + 1)
             ELSE <<s[p]>> \o SubFrom(s, p + 1))

lrc_sub(s) == SubFrom(s, 1)

---------------------------------------------------------------------------
(* The parsers.  A parser's result is [exc, format, subtitles]: exc is the *)
(* exception it raised, "none" when it returned.                           *)

Arrow == <<" ", "-", "-", ">", " ">>

Cue(start, end, text) == [start |-> start, end |-> end, text |-> text]

\* while i < len(lines) and lines[i].strip(): text_lines.append(...); i += 1
\* (i is 0-based, as in the source)
RECURSIVE GatherText(_, _, _)
GatherText(lines, i, text_lines) ==
    IF i < Len(lines) /\ Strip(lines[i + 1]) # <<>>
    THEN With(Append(text_lines, Strip(lines[i + 1])), LAMBDA more :
             GatherText(lines, i + 1, more))
    ELSE [i |-> i, text_lines |-> text_lines]

\* the cue of a time line split into times, and the text lines after it
TimedCue(times, format, body) ==
    Cue(With(Strip(times[1]), LAMBDA t : parse_time(t, format)),
        With(Strip(times[2]), LAMBDA t : parse_time(t, format)),
        Join(body.text_lines, <<NL>>))

RECURSIVE SrtLoop(_, _, _)
SrtLoop(lines, i, subs) ==
    IF i >= Len(lines) THEN [exc |-> "none", format |-> "srt", subtitles |-> subs]
    ELSE IF IsDigitStr(Strip(lines[i + 1]))
    THEN IF i + 1 >= Len(lines)
         THEN [exc |-> "IndexError", format |-> "srt", subtitles |-> subs]
         ELSE With(Split(Strip(lines[i + 2]), Arrow), LAMBDA times :
                  IF Len(times) = 2
                  THEN With(GatherText(lines, i + 2, <<>>), LAMBDA body :
                       With(Append(subs, TimedCue(times, "srt", body)),
                            LAMBDA more : SrtLoop(lines, body.i + 1, more)))
                  ELSE SrtLoop(lines, i + 2, subs))
    ELSE SrtLoop(lines, i + 1, subs)

parse_srt(lines) == SrtLoop(lines, 0, <<>>)

RECURSIVE VttLoop(_, _, _)
VttLoop(lines, i, subs) ==
    IF i >= Len(lines) THEN [exc |-> "none", format |-> "vtt", subtitles |-> subs]
    ELSE IF Contains(lines[i + 1], <<"-", "-", ">">>)
    THEN With(Split(Strip(lines[i + 1]), Arrow), LAMBDA times :
             IF Len(times) = 2
             THEN With(GatherText(lines, i + 1, <<>>), LAMBDA body :
                  With(Append(subs, TimedCue(times, "vtt", body)),
                       LAMBDA more : VttLoop(lines, body.i + 1, more)))
             ELSE VttLoop(lines, i + 1, subs))
    ELSE VttLoop(lines, i + 1, subs)

parse_vtt(lines) == VttLoop(lines, 0, <<>>)

\* a first tag's text is kept when its time comes again
MapPutKeepFirst(map, key, text) ==
    [k \in DOMAIN map \cup {key} |->
        IF k \in DOMAIN map THEN map[k] ELSE text]

\* time_text_map[seconds] = text
MapPut(map, key, text) ==
    [k \in DOMAIN map \cup {key} |-> IF k = key THEN text ELSE map[k]]

\* for tag in time_tags: time_text_map[m * 60 + s + cs / 100] = text
RECURSIVE PutTags(_, _, _)
PutTags(map, time_tags, text) ==
    IF time_tags = <<>> THEN map
    ELSE With(MapPut(map, LrcSeconds(time_tags[1]), text), LAMBDA more :
              PutTags(more, Tail(time_tags), text))

\* for line in lines: ... (the first loop of parse_lrc), from line k on
RECURSIVE LrcMap(_, _, _)
LrcMap(lines, k, map) ==
    IF k > Len(lines) THEN map
    ELSE With(Strip(lines[k]), LAMBDA line :
         With(lrc_findall(line), LAMBDA time_tags :
             IF line = <<>> \/ time_tags = <<>>
             THEN LrcMap(lines, k + 1, map)
             ELSE With(PutTags(map, time_tags, Strip(lrc_sub(line))),
                       LAMBDA more : LrcMap(lines, k + 1, more))))

\* the keys, latest first
RECURSIVE SortedDescending(_)
SortedDescending(keys) ==
    IF keys = {} THEN <<>>
    ELSE With(CHOOSE x \in keys : \A y \in keys : ~FLess(x, y), LAMBDA most :
              <<most>> \o With(keys \ {most},
                               LAMBDA rest : SortedDescending(rest)))

\* sorted(keys)
RECURSIVE Sorted(_)
Sorted(keys) ==
    IF keys = {} THEN <<>>
    ELSE With(CHOOSE x \in keys : \A y \in keys : ~FLess(y, x), LAMBDA least :
              <<least>> \o With(keys \ {least}, LAMBDA rest : Sorted(rest)))

DefaultDuration == 5

\* the second loop of parse_lrc
LrcCues(time_text_map, sorted_times) ==
    [k \in 1..Len(sorted_times) |->
        Cue(sorted_times[k],
            IF k + 1 <= Len(sorted_times) THEN sorted_times[k + 1]
            ELSE FAddInt(sorted_times[k], DefaultDuration),
            time_text_map[sorted_times[k]])]

parse_lrc(lines) ==
    With(LrcMap(lines, 1, <<>>), LAMBDA time_text_map :
    With(Sorted(DOMAIN time_text_map), LAMBDA sorted_times :
        [exc |-> "none", format |-> "lrc",
         subtitles |-> LrcCues(time_text_map, sorted_times)]))

---------------------------------------------------------------------------
(* The serializers                                                         *)

\* f"{i}\n{start_str} --> {end_str}\n{text}\n" joined with '\n'
to_srt(subs) ==
    With([k \in 1..Len(subs) |->
             IntToStr(k) \o <<NL>>
                 \o format_time(subs[k].start, "srt") \o Arrow
                 \o format_time(subs[k].end, "srt") \o <<NL>>
                 \o subs[k].text \o <<NL>>],
         LAMBDA out : Join(out, <<NL>>))

\* ["WEBVTT", ""] + f"{start_str} --> {end_str}\n{text}\n", joined with '\n'
to_vtt(subs) ==
    With(<<<<"W", "E", "B", "V", "T", "T">>, <<>>>>
             \o [k \in 1..Len(subs) |->
                    format_time(subs[k].start, "vtt") \o Arrow
                        \o format_time(subs[k].end, "vtt") \o <<NL>>
                        \o subs[k].text \o <<NL>>],
         LAMBDA out : Join(out, <<NL>>))

\* f"{time_str}{text}" joined with '\n'
to_lrc(subs) ==
    With([k \in 1..Len(subs) |->
             format_time(subs[k].start, "lrc") \o subs[k].text],
         LAMBDA out : Join(out, <<NL>>))

---------------------------------------------------------------------------
(* Values the variables of a part hold while another part runs             *)

CodecIdle ==
    /\ target_format = "srt" /\ seconds = FromInt(0) /\ time_str = <<>>
    /\ parsed = FromInt(0) /\ cpc = "idle"

ParseIdle ==
    /\ doc_lines = <<>> /\ doc_format = "srt" /\ subtitles = <<>>
    /\ output = <<>> /\ ppc = "idle" /\ trail = <<>> /\ input0 = <<>>

ConvIdle ==
    /\ fs = <<>> /\ before = <<>> /\ last_call = <<>> /\ written = {}
    /\ error = "none" /\ ncalls = 0

MoverIdle ==
    /\ root = {} /\ subdir = <<>> /\ subdir0 = <<>> /\ Item_List = <<>>
    /\ outer_i = 0 /\ todo = <<>> /\ mpc = "idle"

---------------------------------------------------------------------------
(* SpecCodec: format_time, then parse_time of what it returned             *)

Formats == {"srt", "vtt", "lrc"}

\* whole seconds around every field boundary of the two layouts
CodecSeconds ==
    {0, 1, 59, 60, 100, 3599, 3600, 5999, 6000, 359999, 360000}

MaxMillis == 70

\* the floats parse_time returns: whole seconds + ms / 1000
CodecInputs ==
    {FAddInt(IntDiv(ms, 1000), whole) :
        ms \in 0..MaxMillis, whole \in CodecSeconds}

InitCodec ==
    /\ target_format \in Formats \cup {"ass"}
    /\ seconds \in CodecInputs
    /\ time_str = <<>>
    /\ parsed = FromInt(0)
    /\ cpc = "start"
    /\ ParseIdle /\ ConvIdle /\ MoverIdle

Format ==
    /\ cpc = "start"
    /\ time_str' = format_time(seconds, target_format)
    /\ cpc' = "formatted"
    /\ UNCHANGED <<target_format, seconds, parsed>>
    /\ UNCHANGED <<parseVars, convVars, moverVars>>

ParseBack ==
    /\ cpc = "formatted"
    /\ parsed' = parse_time(time_str, target_format)
    /\ cpc' = "parsed"
    /\ UNCHANGED <<target_format, seconds, time_str>>
    /\ UNCHANGED <<parseVars, convVars, moverVars>>

NextCodec == Format \/ ParseBack

SpecCodec == InitCodec /\ [][NextCodec]_vars

---------------------------------------------------------------------------
(* SpecParse: a parser on a document, a serializer on its cues, and the    *)
(* text read again as read_file reads it                                   *)

D2(n) == <<Digits[(n \div 10) + 1], Digits[(n % 10) + 1]>>

D3(n) == <<Digits[(n \div 100) + 1]>> \o D2(n % 100)

\* 00:00:SS<sep>mmm
Stamp(s, sep, ms) ==
    <<"0", "0", ":", "0", "0", ":">> \o D2(s) \o <<sep>> \o D3(ms)

\* time lines of well-formed SRT cues: one with a fraction that is no
\* binary fraction, one with fractions that are
SrtTimeLines ==
    {Stamp(1, ",", 1) \o Arrow \o Stamp(3, ",", 0),
     Stamp(4, ",", 500) \o Arrow \o Stamp(6, ",", 0)}

\* cue texts of one line and of two
SrtBodies == {<<<<"a">>>>, <<<<"a">>, <<"b">>>>}

MaxCues == 2

\* index line, time line, text lines; a blank line between blocks
RECURSIVE SrtBlocks(_, _)
SrtBlocks(cues, k) ==
    IF k > Len(cues) THEN <<>>
    ELSE (IF k = 1 THEN <<>> ELSE <<<<>>>>)
             \o <<IntToStr(k), cues[k][1]>> \o cues[k][2]
             \o SrtBlocks(cues, k + 1)

WellFormedSrtDocs ==
    {SrtBlocks(cues, 1) :
        cues \in UNION {[1..n -> SrtTimeLines \X SrtBodies] : n \in 1..MaxCues}}

MaxRawLines == 3

\* every sequence of at most MaxRawLines lines of an alphabet
RawDocs(alphabet) == UNION {[1..n -> alphabet] : n \in 0..MaxRawLines}

\* an index line, a text line, a blank line, a time line, a line that
\* splits in two at the arrow and holds no timestamp
SrtRawLines ==
    {<<"1">>, <<"a">>, <<>>,
     Stamp(4, ",", 500) \o Arrow \o Stamp(6, ",", 0),
     <<"x">> \o Arrow \o <<"y">>}

\* the header, a blank line, a text line, a time line, an arrow without
\* the spaces around it
VttRawLines ==
    {<<"W", "E", "B", "V", "T", "T">>, <<>>, <<"a">>,
     Stamp(1, ".", 1) \o Arrow \o Stamp(2, ".", 0),
     <<"a", "-", "-", ">", "b">>}

\* two tagged lines out of order, a line with two tags (the first the
\* time of another line's tag, written with one-digit fields), a line
\* without a tag, a blank line
LrcRawLines ==
    {<<"[", "0", "0", ":", "0", "5", ".", "0", "0", "]", "b">>,
     <<"[", "0", "0", ":", "0", "1", ".", "0", "0", "]", "a">>,
     <<"[", "0", ":", "5", ".", "0", "]",
       "[", "0", "1", ":", "0", "0", ".", "5", "0", "]", " ", "c">>,
     <<"x">>, <<>>}

ParseInputs ==
    ({"srt"} \X (WellFormedSrtDocs \cup RawDocs(SrtRawLines)))
        \cup ({"vtt"} \X RawDocs(VttRawLines))
        \cup ({"lrc"} \X RawDocs(LrcRawLines))

MaxHops == 2

InitParse ==
    /\ \E in \in ParseInputs : doc_format = in[1] /\ doc_lines = in[2]
    /\ input0 = doc_lines
    /\ subtitles = <<>>
    /\ output = <<>>
    /\ ppc = "lines"
    /\ trail = <<doc_format>>
    /\ CodecIdle /\ ConvIdle /\ MoverIdle

\* the parser read_file picks for a format
Parser(format, ls) ==
    IF format = "srt" THEN parse_srt(ls)
    ELSE IF format = "vtt" THEN parse_vtt(ls)
    ELSE parse_lrc(ls)

\* the serializer convert picks for a format
Serializer(format, subs) ==
    IF format = "srt" THEN to_srt(subs)
    ELSE IF format = "vtt" THEN to_vtt(subs)
    ELSE to_lrc(subs)

\* content.strip().split('\n')
ReadLines(text) == With(Strip(text), LAMBDA content : Split(content, <<NL>>))

Parse ==
    /\ ppc = "lines"
    /\ \E r \in {Parser(doc_format, doc_lines)} :
           /\ ppc' = IF r.exc = "none" THEN "parsed" ELSE "raised"
           /\ subtitles' = r.subtitles
    /\ UNCHANGED <<doc_lines, doc_format, output, trail, input0>>
    /\ UNCHANGED <<codecVars, convVars, moverVars>>

Serialize ==
    /\ ppc = "parsed"
    /\ Len(trail) <= MaxHops
    /\ \E f \in Formats \ {doc_format} :
           /\ output' = Serializer(f, subtitles)
           /\ doc_format' = f
           /\ trail' = Append(trail, f)
    /\ ppc' = "serialized"
    /\ UNCHANGED <<doc_lines, subtitles, input0>>
    /\ UNCHANGED <<codecVars, convVars, moverVars>>

ReadBack ==
    /\ ppc = "serialized"
    /\ doc_lines' = ReadLines(output)
    /\ ppc' = "lines"
    /\ UNCHANGED <<doc_format, subtitles, output, trail, input0>>
    /\ UNCHANGED <<codecVars, convVars, moverVars>>

NextParse == Parse \/ Serialize \/ ReadBack

SpecParse == InitParse /\ [][NextParse]_vars

---------------------------------------------------------------------------
(* Spec: convert_file on the files of one directory that share a stem.     *)
(* A file is named by its suffix, written without the dot.                 *)

\* input suffixes: the three formats, one in upper case, one that is none
Suffixes == {"srt", "vtt", "lrc", "SRT", "txt"}

\* output_format arguments: the three formats, one in upper case, one
\* that is none, the empty string
OutputFormats == {"srt", "vtt", "lrc", "SRT", "ass", ""}

\* x.lower() on the suffixes and formats above
Lower(x) == IF x = "SRT" THEN "srt" ELSE x

\* the text of a file of the given lines, ended by a newline
FileText(ls) == Join(ls, <<NL>>) \o <<NL>>

GoodSrtText ==
    FileText(<<<<"1">>, Stamp(4, ",", 500) \o Arrow \o Stamp(6, ",", 0),
               <<"a">>>>)

\* an index line and nothing after it
IndexOnlySrtText == <<"1">>

VttText ==
    FileText(<<<<"W", "E", "B", "V", "T", "T">>, <<>>,
               Stamp(1, ".", 1) \o Arrow \o Stamp(2, ".", 0), <<"a">>>>)

LrcText ==
    <<"[", "0", "0", ":", "0", "5", ".", "0", "0", "]", "b", NL,
      "[", "0", "0", ":", "0", "1", ".", "0", "0", "]", "a">>

\* the directories the calls start from: "absent" is no file
InitialFiles ==
    {[x \in {y \in Suffixes : y = "srt" => srt # <<"absent">>}
                \ (IF vtt THEN {} ELSE {"vtt"}) |->
         IF x = "srt" THEN srt
         ELSE IF x = "vtt" THEN VttText
         ELSE IF x = "lrc" THEN LrcText
         ELSE IF x = "SRT" THEN GoodSrtText
         ELSE <<"a">>] :
        srt \in {<<"absent">>, GoodSrtText, IndexOnlySrtText},
        vtt \in BOOLEAN}

MaxCalls == 2

Init ==
    /\ fs \in InitialFiles
    /\ before = fs
    /\ last_call = <<>>
    /\ written = {}
    /\ error = "none"
    /\ ncalls = 0
    /\ CodecIdle /\ ParseIdle /\ MoverIdle

\* read_file of the file with the given suffix
read_file(files, suffix) ==
    IF suffix \notin DOMAIN files
    THEN [exc |-> "FileNotFoundError", format |-> "", subtitles |-> <<>>]
    ELSE With(ReadLines(files[suffix]), LAMBDA ls :
             IF Lower(suffix) \in {"srt", "vtt", "lrc"}
             THEN Parser(Lower(suffix), ls)
             ELSE [exc |-> "Unsupported file format", format |-> "",
                   subtitles |-> <<>>])

\* a convert without its first check
SameFormatNever(input_format, output_format) == FALSE

\* input_format == output_format
SameFormat(input_format, output_format) == input_format = output_format

\* convert: [exc, text]
convert(files, suffix, output_format) ==
    With(read_file(files, suffix), LAMBDA r :
        IF r.exc # "none" THEN [exc |-> r.exc, text |-> <<>>]
        ELSE IF SameFormat(r.format, output_format)
        THEN [exc |-> "Input and output formats are the same", text |-> <<>>]
        ELSE IF output_format \in {"srt", "vtt", "lrc"}
        THEN [exc |-> "none", text |-> Serializer(output_format, r.subtitles)]
        ELSE [exc |-> "Unsupported output format", text |-> <<>>])

\* input_path.with_suffix(f'.{output_format.lower()}'): [exc, suffix]
with_suffix(output_format) ==
    IF output_format = "" THEN [exc |-> "Invalid suffix", suffix |-> ""]
    ELSE [exc |-> "none", suffix |-> Lower(output_format)]

\* files after path.write_text(text)
write_text(files, suffix, text) ==
    [x \in DOMAIN files \cup {suffix} |->
        IF x = suffix THEN text ELSE files[x]]

convert_file(input_suffix, output_format) ==
    /\ ncalls < MaxCalls
    /\ \E output_file \in {with_suffix(output_format)} :
       \E converted \in {IF output_file.exc # "none"
                         THEN [exc |-> output_file.exc, text |-> <<>>]
                         ELSE convert(fs, input_suffix, output_format)} :
           /\ error' = converted.exc
           /\ IF converted.exc = "none"
              THEN /\ fs' = write_text(fs, output_file.suffix, converted.text)
                   /\ written' = {output_file.suffix}
              ELSE /\ fs' = fs
                   /\ written' = {}
    /\ before' = fs
    /\ last_call' = <<input_suffix, output_format>>
    /\ ncalls' = ncalls + 1
    /\ UNCHANGED <<codecVars, parseVars, moverVars>>

Next ==
    \E input_suffix \in Suffixes, output_format \in OutputFormats :
        convert_file(input_suffix, output_format)

Spec == Init /\ [][Next]_vars

---------------------------------------------------------------------------
(* SpecMover: Move-Item-Out-SubDir.py, statement by statement.  An entry   *)
(* of the root directory is a name; a subdirectory is a name and the set   *)
(* of names inside it; whatever is not a subdirectory is a file.           *)

MaxSubDirs == 2

MaxItems == 2

\* the script's own file, always in the root directory
RootFiles == {"f"}

SubDirNames == {<<"A", "B", "C">>[k] : k \in 1..MaxSubDirs}

\* names of items; one of them is the name of a file of the root
ItemNames == {"x", "y", "z", "f"}

\* every order of the elements of a set
Orders(S) ==
    {o \in [1..Cardinality(S) -> S] :
        \A a, b \in 1..Cardinality(S) : a # b => o[a] # o[b]}

InitMover ==
    /\ \E D \in SUBSET SubDirNames :
           /\ subdir \in [D -> {I \in SUBSET ItemNames :
                                   Cardinality(I) <= MaxItems}]
           /\ root = RootFiles \cup D
    /\ subdir0 = subdir
    /\ Item_List = <<>>
    /\ outer_i = 0
    /\ todo = <<>>
    /\ mpc = "start"
    /\ CodecIdle /\ ParseIdle /\ ConvIdle

\* Item_List = os.listdir(Root_Dir)
ListRoot ==
    /\ mpc = "start"
    /\ Item_List' \in Orders(root)
    /\ mpc' = "outer"
    /\ UNCHANGED <<root, subdir, subdir0, outer_i, todo>>
    /\ UNCHANGED <<codecVars, parseVars, convVars>>

\* the loop has run through Item_List
Finish ==
    /\ mpc = "outer"
    /\ outer_i >= Len(Item_List)
    /\ mpc' = "done"
    /\ UNCHANGED <<root, subdir, subdir0, Item_List, outer_i, todo>>
    /\ UNCHANGED <<codecVars, parseVars, convVars>>

\* if os.path.isdir(path) is false: on to the next i
SkipFile ==
    /\ mpc = "outer"
    /\ outer_i < Len(Item_List)
    /\ Item_List[outer_i + 1] \notin DOMAIN subdir
    /\ outer_i' = outer_i + 1
    /\ UNCHANGED <<root, subdir, subdir0, Item_List, todo, mpc>>
    /\ UNCHANGED <<codecVars, parseVars, convVars>>

\* for item in os.listdir(path): the listing is taken once
ListSubDir ==
    /\ mpc = "outer"
    /\ outer_i < Len(Item_List)
    /\ Item_List[outer_i + 1] \in DOMAIN subdir
    /\ todo' \in Orders(subdir[Item_List[outer_i + 1]])
    /\ IF todo' = <<>>
       THEN outer_i' = outer_i + 1 /\ mpc' = "outer"
       ELSE outer_i' = outer_i /\ mpc' = "move"
    /\ UNCHANGED <<root, subdir, subdir0, Item_List>>
    /\ UNCHANGED <<codecVars, parseVars, convVars>>

\* shutil.move(File_Full_Path, Target_Path) moves the item
Move ==
    /\ mpc = "move"
    /\ LET d == Item_List[outer_i + 1]
           item == Head(todo)
       IN  /\ item \notin root
           /\ d \in DOMAIN subdir /\ item \in subdir[d]
           /\ root' = root \cup {item}
           /\ subdir' = [subdir EXCEPT ![d] = @ \ {item}]
    /\ mpc' = "rmtree"
    /\ UNCHANGED <<subdir0, Item_List, outer_i, todo>>
    /\ UNCHANGED <<codecVars, parseVars, convVars>>

\* shutil.move raises: the root holds an entry of the item's name
\* (shutil.Error), or the item is not there (FileNotFoundError)
MoveRaises ==
    /\ mpc = "move"
    /\ LET d == Item_List[outer_i + 1]
           item == Head(todo)
       IN  \/ item \in root
           \/ ~(d \in DOMAIN subdir /\ item \in subdir[d])
    /\ mpc' = "crashed"
    /\ UNCHANGED <<root, subdir, subdir0, Item_List, outer_i, todo>>
    /\ UNCHANGED <<codecVars, parseVars, convVars>>

\* shutil.rmtree(Sub_Dir_Name), inside the loop over the items: the
\* subdirectory goes with all that is left in it; then the print, and
\* the next item
Rmtree ==
    /\ mpc = "rmtree"
    /\ LET d == Item_List[outer_i + 1]
       IN  /\ subdir' = [x \in DOMAIN subdir \ {d} |-> subdir[x]]
           /\ root' = root \ {d}
    /\ todo' = Tail(todo)
    /\ IF todo' = <<>>
       THEN outer_i' = outer_i + 1 /\ mpc' = "outer"
       ELSE outer_i' = outer_i /\ mpc' = "move"
    /\ UNCHANGED <<subdir0, Item_List>>
    /\ UNCHANGED <<codecVars, parseVars, convVars>>

NextMover ==
    ListRoot \/ Finish \/ SkipFile \/ ListSubDir \/ Move \/ MoveRaises \/ Rmtree

SpecMover == InitMover /\ [][NextMover]_vars

---------------------------------------------------------------------------
(* Claims about the time codec (checked under SpecCodec)                   *)

\* t is a time the layout of format f can hold: below 100 hours for srt
\* and vtt, below 100 minutes for lrc
ValidTime(t, f) ==
    IF f = "lrc" THEN t.ip < 100 * 60 ELSE t.ip < 100 * 3600

\* 1000 for the millisecond formats, 100 for the centisecond format
UnitsPerSecond(f) == IF f = "lrc" THEN 100 ELSE 1000

\* |x - y|, exactly
AbsDiff(x, y) == IF FLess(x, y) THEN SubExact(y, x) ELSE SubExact(x, y)

\* C2: for every format f and every time t valid for f,
\* parse_time(format_time(t, f), f) differs from t by less than the
\* precision of f: 1 ms for srt and vtt, 10 ms for lrc.
C2_RoundTripWithinPrecision ==
    (cpc = "parsed" /\ target_format \in Formats
        /\ ValidTime(seconds, target_format))
    => MulExact(AbsDiff(parsed, seconds),
                UnitsPerSecond(target_format)).ip = 0

\* s is dd:dd:dd<sep>ddd (srt, vtt) or [dd:dd.dd] (lrc)
FixedWidth(s, f) ==
    IF f = "lrc"
    THEN /\ Len(s) = 10
         /\ s[1] = "[" /\ s[4] = ":" /\ s[7] = "." /\ s[10] = "]"
         /\ \A j \in {2, 3, 5, 6, 8, 9} : IsDigit(s[j])
    ELSE /\ Len(s) = 12
         /\ s[3] = ":" /\ s[6] = ":"
         /\ s[9] = (IF f = "srt" THEN "," ELSE ".")
         /\ \A j \in {1, 2, 4, 5, 7, 8, 10, 11, 12} : IsDigit(s[j])

\* the pattern of format f matches the whole of s
MatchedByPattern(s, f) ==
    LET match == IF f = "lrc" THEN lrc_time_pattern(s)
                 ELSE IF f = "srt" THEN srt_time_pattern(s)
                 ELSE vtt_time_pattern(s)
    IN  /\ match.ok /\ match.end = Len(s)
        /\ f # "lrc" => time_pattern(s) = match

\* C7 as stated: for every non-negative seconds value format_time writes
\* fields of exactly 2/2/2/3 digits (srt, vtt) or 2/2/2 digits (lrc), a
\* string its own format's pattern matches.
C7_FixedWidthAlways ==
    (cpc \in {"formatted", "parsed"} /\ target_format \in Formats)
    => /\ FixedWidth(time_str, target_format)
       /\ MatchedByPattern(time_str, target_format)

\* C7 amended: the same for every seconds value below 100 hours (srt,
\* vtt) or below 100 minutes (lrc); from there on the first field is wider.
C7_FixedWidthInRange ==
    (cpc \in {"formatted", "parsed"} /\ target_format \in Formats
        /\ ValidTime(seconds, target_format))
    => /\ FixedWidth(time_str, target_format)
       /\ MatchedByPattern(time_str, target_format)

\* a time with every field of the srt layout below its width was formatted
C7_Witness ==
    /\ cpc = "formatted" /\ target_format = "srt"
    /\ seconds.ip = 3600 /\ seconds.fr # ZeroFr
    /\ time_str[1] = "0" /\ time_str[10] = "0"

---------------------------------------------------------------------------
(* Claims about the parsers and serializers (checked under SpecParse)      *)

\* l is 'HH:MM:SS,mmm --> HH:MM:SS,mmm'
IsSrtTimeLine(l) ==
    With(Split(l, Arrow), LAMBDA times :
        /\ Len(times) = 2
        /\ \A k \in 1..2 :
               FixedWidth(times[k], "srt") /\ srt_time_pattern(times[k]).ok)

\* from line k on, lines is blocks of index line, time line and one or
\* more non-blank text lines, one blank line between blocks
RECURSIVE WellFormedFrom(_, _)
WellFormedFrom(lines, k) ==
    /\ k + 2 <= Len(lines)
    /\ IsDigitStr(lines[k])
    /\ IsSrtTimeLine(lines[k + 1])
    /\ Strip(lines[k + 2]) # <<>>
    /\ LET stop == CHOOSE j \in (k + 3)..(Len(lines) + 1) :
                       /\ j = Len(lines) + 1 \/ Strip(lines[j]) = <<>>
                       /\ \A q \in (k + 3)..(j - 1) : Strip(lines[q]) # <<>>
       IN  stop > Len(lines) \/ WellFormedFrom(lines, stop + 1)

WellFormedSrt(lines) == WellFormedFrom(lines, 1)

\* C1: for every well-formed SRT document, to_vtt of its cues, parse_vtt,
\* to_srt and parse_srt give exactly the cues parse_srt gave for the
\* original: same number, order, start, end and text.
C1_SrtVttSrtIdentity ==
    (ppc = "parsed" /\ trail = <<"srt", "vtt", "srt">> /\ WellFormedSrt(input0))
    => subtitles = parse_srt(input0).subtitles

\* C3: the cues parse_lrc returns are strictly ascending in start, every
\* cue but the last ends where the next starts, the last ends 5 seconds
\* after its start, and every cue has start < end.
C3_LrcCuesAscendingContiguous ==
    (ppc = "parsed" /\ doc_format = "lrc")
    => \A k \in 1..Len(subtitles) :
           /\ FLess(subtitles[k].start, subtitles[k].end)
           /\ k < Len(subtitles) =>
                  /\ FLess(subtitles[k].start, subtitles[k + 1].start)
                  /\ subtitles[k].end = subtitles[k + 1].start
           /\ k = Len(subtitles) =>
                  subtitles[k].end = FAddInt(subtitles[k].start, 5)

\* parse_lrc has returned the cues of a file whose tags are out of order
C3_Witness ==
    /\ ppc = "parsed" /\ doc_format = "lrc" /\ trail = <<"lrc">>
    /\ Len(doc_lines) = 2 /\ Len(subtitles) = 2
    /\ lrc_sub(doc_lines[1]) = <<"b">> /\ lrc_sub(doc_lines[2]) = <<"a">>
    /\ subtitles[1].text = <<"a">> /\ subtitles[2].text = <<"b">>

\* C5: each parser returns a cue list for every sequence of lines, an
\* index line with nothing after it included; none raises.
C5_ParsersNeverRaise == ppc # "raised"

\* the lines of a text, none for the empty text
OutputLines(text) == IF text = <<>> THEN <<>> ELSE Split(text, <<NL>>)

\* C8: for the cues parse_srt or parse_vtt returned, the output of to_lrc
\* has one line per cue, in order: the tag of the cue's start, then the
\* cue's text.
C8_OneLinePerCue ==
    (ppc = "serialized" /\ doc_format = "lrc"
        /\ trail[Len(trail) - 1] \in {"srt", "vtt"})
    => With(OutputLines(output), LAMBDA out :
           /\ Len(out) = Len(subtitles)
           /\ \A k \in 1..Len(out) :
                  /\ lrc_time_pattern(out[k]).ok
                  /\ out[k] = format_time(subtitles[k].start, "lrc")
                                  \o subtitles[k].text)

\* <<k, t>> for every tag of line k and its time t
TagsOf(lines) ==
    UNION {With(lrc_findall(Strip(lines[k])), LAMBDA tags :
               {<<k, LrcSeconds(tags[j])>> : j \in 1..Len(tags)}) :
           k \in 1..Len(lines)}

\* C9: parse_lrc returns one cue per distinct time of a tag of the file;
\* the cue's text is the text, tags removed, of the last line that holds
\* a tag of that time.
C9_OneCuePerTimeLastLineWins ==
    (ppc = "parsed" /\ doc_format = "lrc")
    => With(TagsOf(doc_lines), LAMBDA tagged :
           /\ Len(subtitles) = Cardinality({kt[2] : kt \in tagged})
           /\ {subtitles[j].start : j \in 1..Len(subtitles)}
                  = {kt[2] : kt \in tagged}
           /\ \A j \in 1..Len(subtitles) :
                  LET last == CHOOSE k \in 1..Len(doc_lines) :
                                  /\ <<k, subtitles[j].start>> \in tagged
                                  /\ \A kt \in tagged :
                                         kt[2] = subtitles[j].start
                                             => kt[1] <= k
                  IN  subtitles[j].text
                          = Strip(lrc_sub(Strip(doc_lines[last]))))

\* parse_lrc has returned the cues of a file whose second line carries
\* two tags, the first of them the time of the first line's tag
C9_Witness ==
    /\ ppc = "parsed" /\ doc_format = "lrc" /\ trail = <<"lrc">>
    /\ Len(doc_lines) = 2 /\ Len(subtitles) = 2
    /\ Len(lrc_findall(doc_lines[1])) = 1
    /\ Len(lrc_findall(doc_lines[2])) = 2
    /\ LrcSeconds(lrc_findall(doc_lines[1])[1])
           = LrcSeconds(lrc_findall(doc_lines[2])[1])
    /\ subtitles[1].text = <<"c">> /\ subtitles[2].text = <<"c">>

---------------------------------------------------------------------------
(* Claims about convert and convert_file (checked under Spec)              *)

\* C4: convert of an existing .srt, .vtt or .lrc file, whatever its
\* content, to the format of its suffix fails with the same-format error
\* and returns nothing.
C4_SameFormatAlwaysRejected ==
    (last_call # <<>> /\ last_call[1] \in Formats
        /\ last_call[2] = last_call[1] /\ last_call[1] \in DOMAIN before)
    => /\ error = "Input and output formats are the same"
       /\ written = {}

\* C10: a convert_file whose convert failed leaves every file as it was
\* and writes none; one that succeeded wrote one file, not the input
\* file, and left the input file and every other file as they were.
C10_InputFileUnchanged ==
    last_call # <<>>
    => /\ error # "none" => (written = {} /\ fs = before)
       /\ error = "none" =>
              /\ written = {Lower(last_call[2])}
              /\ last_call[1] \notin written
              /\ Lower(last_call[2]) # Lower(last_call[1])
              /\ \A x \in DOMAIN before \ written :
                     x \in DOMAIN fs /\ fs[x] = before[x]
              /\ DOMAIN fs = DOMAIN before \cup written
       /\ last_call[1] \in DOMAIN before =>
              /\ last_call[1] \in DOMAIN fs
              /\ fs[last_call[1]] = before[last_call[1]]

\* the second call has converted the .SRT file and written over the
\* .vtt file that was there
C10_Witness ==
    /\ last_call = <<"SRT", "vtt">> /\ error = "none" /\ ncalls = 2
    /\ written = {"vtt"} /\ "vtt" \in DOMAIN before
    /\ fs["vtt"] # before["vtt"]
    /\ fs["SRT"] = GoodSrtText

---------------------------------------------------------------------------
(* Claims about the directory mover (checked under SpecMover)              *)

\* the entries of the root directory when the script started
Root0 == RootFiles \cup DOMAIN subdir0

\* the items of the subdirectories have names distinct from each other
\* and from the root's entries
DistinctNames ==
    /\ \A d \in DOMAIN subdir0 : subdir0[d] \cap Root0 = {}
    /\ \A d, e \in DOMAIN subdir0 : d # e => subdir0[d] \cap subdir0[e] = {}

\* C6: with distinct names, no subdirectory is removed while it holds an
\* item that has not been moved (every item is in its subdirectory or in
\* the root at every step), and once the script has run every item that
\* was in a subdirectory is in the root.
C6_MovedBeforeDeleted ==
    DistinctNames
    => \A d \in DOMAIN subdir0 : \A item \in subdir0[d] :
           /\ item \in root \/ (d \in DOMAIN subdir /\ item \in subdir[d])
           /\ mpc \in {"done", "crashed"} => item \in root

=============================================================================
